---------------------------- MODULE Spec2Model ----------------------------
(***************************************************************************)
(* English Trainer Bot (src/bot.py): the per-user session/grading engine.  *)
(*                                                                         *)
(* A text is a sequence of characters.  A Latin character, a digit or a    *)
(* punctuation mark is the one-character string itself; an Arabic          *)
(* character is written by its Unicode name in lower case ("alef", "beh",  *)
(* "teh_marbuta", ...).                                                    *)
(***************************************************************************)
EXTENDS Integers, Sequences, FiniteSets, TLC

(***************************************************************************)
(* Characters                                                              *)
(***************************************************************************)
LowerLetters ==
    <<"a","b","c","d","e","f","g","h","i","j","k","l","m",
      "n","o","p","q","r","s","t","u","v","w","x","y","z">>

UpperLetters ==
    <<"A","B","C","D","E","F","G","H","I","J","K","L","M",
      "N","O","P","Q","R","S","T","U","V","W","X","Y","Z">>

Digits == {"0","1","2","3","4","5","6","7","8","9"}

\* the characters str.strip() removes and the regular expression \s matches
WhiteSpace == {" ", "\t", "\n"}

\* characters of the Unicode block U+0600..U+06FF that the model uses:
\* letters, the comma U+060C and the diacritic fatha U+064E
AlefForms == {"alef_hamza_below", "alef_hamza_above", "alef_madda", "alef"}

ArabicBlock ==
    AlefForms \cup
    {"beh", "teh", "teh_marbuta", "jeem", "hah", "khah", "dal", "reh", "zain",
     "seen", "dad", "tah", "ain", "feh", "qaf", "lam", "meem", "noon", "heh",
     "waw", "waw_hamza", "yeh", "alef_maksura", "arabic_comma", "fatha"}

Range(s) == {s[i] : i \in 1..Len(s)}

\* str.lower() on one character
LowerChar(c) ==
    IF c \in Range(UpperLetters)
    THEN LowerLetters[CHOOSE i \in 1..Len(UpperLetters) : UpperLetters[i] = c]
    ELSE c

\* str.lower()
lower(s) == [i \in 1..Len(s) |-> LowerChar(s[i])]

RECURSIVE lstrip(_)
lstrip(s) ==
    IF s # <<>> /\ Head(s) \in WhiteSpace THEN lstrip(Tail(s)) ELSE s

RECURSIVE rstrip(_)
rstrip(s) ==
    IF s # <<>> /\ s[Len(s)] \in WhiteSpace
    THEN rstrip(SubSeq(s, 1, Len(s) - 1))
    ELSE s

\* str.strip()
strip(s) == rstrip(lstrip(s))

\* re.sub(r"\s+", " ", s): every maximal run of whitespace becomes one space
RECURSIVE collapse_ws(_)
collapse_ws(s) ==
    IF s = <<>> THEN <<>>
    ELSE IF Head(s) \in WhiteSpace
         THEN <<" ">> \o collapse_ws(lstrip(s))
         ELSE <<Head(s)>> \o collapse_ws(Tail(s))

\* re.sub of a one-character class: each matching character is replaced
SubChar(s, Match(_), Repl(_)) ==
    [i \in 1..Len(s) |-> IF Match(s[i]) THEN Repl(s[i]) ELSE s[i]]

ToSpace(c) == " "

\* [^U+0600-U+06FF 0-9 \s]
NotArabicClass(c) == c \notin (ArabicBlock \cup Digits \cup WhiteSpace)

\* [^a-z0-9\s\-]
NotEnglishClass(c) ==
    c \notin (Range(LowerLetters) \cup Digits \cup WhiteSpace \cup {"-"})

IsAlefForm(c) == c \in AlefForms
ToAlef(c) == "alef"
IsAlefMaksura(c) == c = "alef_maksura"
ToYeh(c) == "yeh"
IsTehMarbuta(c) == c = "teh_marbuta"
ToHeh(c) == "heh"

normalize_ar(s) ==
    LET s1 == lower(strip(s))
        s2 == SubChar(s1, NotArabicClass, ToSpace)
        s3 == SubChar(s2, IsAlefForm, ToAlef)
        s4 == SubChar(s3, IsAlefMaksura, ToYeh)
        s5 == SubChar(s4, IsTehMarbuta, ToHeh)
    IN  strip(collapse_ws(s5))

\* normalize_en without the .strip() that follows the whitespace collapse
normalize_en_unstripped(s) ==
    LET s1 == lower(strip(s))
        s2 == SubChar(s1, NotEnglishClass, ToSpace)
    IN  collapse_ws(s2)

normalize_en(s) ==
    LET s1 == lower(strip(s))
        s2 == SubChar(s1, NotEnglishClass, ToSpace)
    IN  strip(collapse_ws(s2))

(***************************************************************************)
(* difflib.SequenceMatcher(None, a, b).ratio() for texts shorter than 200  *)
(* characters (no junk, no "popular" elements).  Positions are 0-based and *)
(* ranges half-open, as in difflib.                                        *)
(***************************************************************************)
RECURSIVE RunLen(_, _, _, _, _, _)
RunLen(a, b, i, j, ahi, bhi) ==
    IF i < ahi /\ j < bhi /\ a[i + 1] = b[j + 1]
    THEN 1 + RunLen(a, b, i + 1, j + 1, ahi, bhi)
    ELSE 0

\* the longest matching block of a[alo:ahi] and b[blo:bhi]; of the longest
\* ones the block that starts earliest in a, and of those earliest in b
find_longest_match(a, b, alo, ahi, blo, bhi) ==
    LET Pairs == (alo..(ahi - 1)) \X (blo..(bhi - 1))
        L[p \in Pairs] == RunLen(a, b, p[1], p[2], ahi, bhi)
        best == IF Pairs = {} THEN 0
                ELSE CHOOSE k \in {L[p] : p \in Pairs} :
                         \A p \in Pairs : L[p] <= k
    IN  IF best = 0 THEN <<alo, blo, 0>>
        ELSE LET i == CHOOSE x \in alo..(ahi - 1) :
                          /\ \E y \in blo..(bhi - 1) : L[<<x, y>>] = best
                          /\ \A x2 \in alo..(x - 1) :
                                \A y \in blo..(bhi - 1) : L[<<x2, y>>] < best
                 j == CHOOSE y \in blo..(bhi - 1) :
                          /\ L[<<i, y>>] = best
                          /\ \A y2 \in blo..(y - 1) : L[<<i, y2>>] < best
             IN  <<i, j, best>>

\* the total size of the blocks get_matching_blocks() collects
RECURSIVE matching_size(_, _, _, _, _, _)
matching_size(a, b, alo, ahi, blo, bhi) ==
    LET m == find_longest_match(a, b, alo, ahi, blo, bhi)
        i == m[1]
        j == m[2]
        k == m[3]
    IN  IF k = 0 THEN 0
        ELSE k
             + (IF alo < i /\ blo < j
                THEN matching_size(a, b, alo, i, blo, j) ELSE 0)
             + (IF i + k < ahi /\ j + k < bhi
                THEN matching_size(a, b, i + k, ahi, j + k, bhi) ELSE 0)

\* ratio() = 2.0 * M / T as the pair <<2M, T>>
ratio(a, b) == <<2 * matching_size(a, b, 0, Len(a), 0, Len(b)), Len(a) + Len(b)>>

\* ratio >= 0.85, i.e. 2M / T >= 85 / 100
ThresholdNum == 85
ThresholdDen == 100

fuzzy_equal(a, b, lang) ==
    LET na == IF lang = "ar" THEN normalize_ar(a) ELSE normalize_en(a)
        nb == IF lang = "ar" THEN normalize_ar(b) ELSE normalize_en(b)
        r  == ratio(na, nb)
    IN  IF na = <<>> \/ nb = <<>>
        THEN [ok |-> FALSE, num |-> 0, den |-> 1]
        ELSE [ok  |-> r[1] * ThresholdDen >= ThresholdNum * r[2],
              num |-> r[1], den |-> r[2]]


(***************************************************************************)
(* Dataset.  An item is a JSON object: keys is the set of keys it has, en  *)
(* and ar are the texts under "en" and "ar" (<<>> when the key is absent)  *)
(* and examples is the number of example sentences.                        *)
(***************************************************************************)
Item(en, ar, n) == [keys |-> {"en", "ar", "examples"}, en |-> en, ar |-> ar, examples |-> n]

\* the empty dict {} that pick_item returns for a level without items
EmptyItem == [keys |-> {}, en |-> <<>>, ar |-> <<>>, examples |-> 0]

\* Python truth value of a dict
Truthy(item) == item.keys # {}

LEVELS == <<"beginner", "intermediate", "advanced">>

FALLBACK_DATA ==
    [beginner |->
        << Item(<<"d","a","t","a">>,
                <<"beh","yeh","alef","noon","alef","teh">>, 1),
           Item(<<"r","e","p","o","r","t">>,
                <<"teh","qaf","reh","yeh","reh">>, 1),
           Item(<<"c","h","a","r","t">>,
                <<"meem","khah","tah","tah">>, 1) >>,
     intermediate |->
        << Item(<<"i","n","s","i","g","h","t">>,
                <<"reh","waw_hamza","yeh","teh_marbuta","/","noon","teh","yeh",
                  "jeem","teh_marbuta"," ","teh","hah","lam","yeh","lam">>, 1),
           Item(<<"t","r","e","n","d">>,
                <<"alef","teh","jeem","alef","heh","/","meem","yeh","lam">>, 1),
           Item(<<"d","a","s","h","b","o","a","r","d">>,
                <<"lam","waw","hah","teh_marbuta"," ","meem","ain","lam","waw",
                  "meem","alef","teh">>, 1) >>,
     advanced |->
        << Item(<<"s","t","a","n","d","a","r","d"," ","d","e","v","i","a","t","i","o","n">>,
                <<"alef","lam","alef","noon","hah","reh","alef","feh"," ",
                  "alef","lam","meem","ain","yeh","alef","reh","yeh">>, 1),
           Item(<<"h","y","p","o","t","h","e","s","i","s"," ","t","e","s","t","i","n","g">>,
                <<"alef","khah","teh","beh","alef","reh"," ",
                  "alef","lam","feh","reh","dad","yeh","alef","teh">>, 1),
           Item(<<"t","i","m","e"," ","s","e","r","i","e","s">>,
                <<"seen","lam","alef","seen","lam"," ",
                  "zain","meem","noon","yeh","teh_marbuta">>, 1) >>]

\* What may be found at DATA_FILE: no file, a file that is not JSON, a JSON
\* value that is not an object (null), or a JSON object (value: a function
\* from its keys to lists of items).
NoFile      == [kind |-> "absent"]
BadJson     == [kind |-> "unparsable"]
NullJson    == [kind |-> "null"]
Object(f)   == [kind |-> "object", value |-> f]

ItemData   == FALLBACK_DATA.beginner[1]
ItemReport == FALLBACK_DATA.beginner[2]
ItemTrend  == FALLBACK_DATA.intermediate[2]
\* an object without the key "ar"
ItemNoAr   == [keys |-> {"en", "examples"}, en |-> <<"k","p","i">>, ar |-> <<>>, examples |-> 0]

FileMissingLevel ==
    Object([beginner |-> <<ItemData>>, intermediate |-> <<ItemTrend>>])
FileValid ==
    Object([beginner |-> <<ItemData, ItemReport>>, intermediate |-> <<ItemTrend>>,
            advanced |-> <<ItemReport>>])
FileEmptyLevel ==
    Object([beginner |-> <<ItemData>>, intermediate |-> <<ItemTrend>>,
            advanced |-> <<>>])
FileItemNoAr ==
    Object([beginner |-> <<ItemNoAr>>, intermediate |-> <<ItemTrend>>,
            advanced |-> <<ItemReport>>])

DataFiles ==
    {NoFile, BadJson, NullJson, FileMissingLevel, FileValid, FileEmptyLevel, FileItemNoAr}

\* `k in data` raises TypeError on None, which the except clause catches
load_data(file) ==
    IF file.kind = "object"
    THEN IF ~ \A i \in 1..Len(LEVELS) : LEVELS[i] \in DOMAIN file.value
         THEN FALLBACK_DATA
         ELSE file.value
    ELSE FALLBACK_DATA

(***************************************************************************)
(* State                                                                   *)
(***************************************************************************)
VARIABLES
    DATA,      \* the module global DATA = load_data()
    SESS,      \* the dict SESS: user id -> session
    fsm,       \* the FSM storage: user id -> conversation state
    history,   \* the History Log: the Attempt records, oldest first
    tasks,     \* user id -> the handlers of that user suspended at an await
    last,      \* the message handled last and what its handler did
    sent       \* the number of messages received so far

vars == <<DATA, SESS, fsm, history, tasks, last, sent>>

Users == {"u1", "u2"}

\* the number of messages the model lets the users send
MaxMsgs == 3

\* FSM states: None, and Train.waiting_answer
Idle == "None"
waiting_answer == "Train:waiting_answer"

\* pick_item without the wrap-around: an index past the end gives the last item
pick_item_clamped(level, idx) ==
    LET items == IF level \in DOMAIN DATA THEN DATA[level] ELSE <<>>
    IN  IF items = <<>> THEN EmptyItem
        ELSE items[(IF idx < Len(items) THEN idx ELSE Len(items) - 1) + 1]

\* idx % len(items), then items[idx]; Python lists are 0-based
pick_item(level, idx) ==
    LET items == IF level \in DOMAIN DATA THEN DATA[level] ELSE <<>>
    IN  IF items = <<>> THEN EmptyItem
        ELSE items[(idx % Len(items)) + 1]

\* sess["current"] is <<>> for None and <<item>> for an item
default_session ==
    [level |-> "beginner", mode |-> "en2ar", index |-> 0, current |-> <<>>]

\* SESS.get(u, default_session())
SessGet(u) == IF u \in DOMAIN SESS THEN SESS[u] ELSE default_session

\* default_session returning one shared dict: every session is that dict
SessPut_shared(u, sess) == [v \in DOMAIN SESS \cup {u} |-> sess]

\* SESS after SESS.setdefault(u, default_session()) and the in-place
\* update of that session to sess
SessPut(u, sess) == (u :> sess) @@ SESS

(***************************************************************************)
(* Messages and replies                                                    *)
(***************************************************************************)
Reply(kind, text) == [kind |-> kind, text |-> text]

\* what a handler did: the replies it sent in order, whether it raised, and
\* for a graded answer the verdict
Done(u, cmd, arg, verdict, replies, raised) ==
    [user |-> u, cmd |-> cmd, arg |-> arg, verdict |-> verdict,
     replies |-> replies, raised |-> raised]

LevelChars(l) ==
    CASE l = "beginner"     -> <<"b","e","g","i","n","n","e","r">>
      [] l = "intermediate" -> <<"i","n","t","e","r","m","e","d","i","a","t","e">>
      [] l = "advanced"     -> <<"a","d","v","a","n","c","e","d">>

MODES == <<"en2ar", "ar2en">>

ModeChars(m) ==
    CASE m = "en2ar" -> <<"e","n","2","a","r">>
      [] m = "ar2en" -> <<"a","r","2","e","n">>

\* m.text.split(maxsplit=1) of the /level messages the model sends
LevelParts ==
    { <<"/level">>,
      <<"/level", LevelChars("beginner")>>,
      <<"/level", <<"I","n","t","e","r","m","e","d","i","a","t","e">>>>,
      <<"/level", <<"A","D","V","A","N","C","E","D">>>>,
      <<"/level", <<"e","x","p","e","r","t">>>> }

\* m.text.split(maxsplit=1) of the /mode messages the model sends
ModeParts ==
    { <<"/mode">>,
      <<"/mode", ModeChars("en2ar")>>,
      <<"/mode", <<"A","R","2","E","N">>>>,
      <<"/mode", <<"b","o","t","h">>>> }

\* the free texts the model sends
AnswerTexts ==
    { ItemData.ar,
      <<"beh","yeh","alef","noon","alef">>,
      <<"D","a","t","a","!">>,
      ItemReport.en,
      <<" ">> }

\* every text an item of a loadable dataset holds
ItemTexts ==
    LET Datasets   == {load_data(f) : f \in DataFiles}
        ItemsOf(d) == UNION {Range(d[l]) : l \in DOMAIN d}
    IN  UNION {{it.en, it.ar} : it \in UNION {ItemsOf(d) : d \in Datasets}}

\* fuzzy_equal on the texts the model sends and the texts of the items,
\* evaluated once
Graded ==
    [q \in AnswerTexts \X ItemTexts \X {"ar", "en"} |->
        fuzzy_equal(strip(q[1]), q[2], q[3])]

(***************************************************************************)
(* What each handler does to the sender's session and conversation state.  *)
(* An outcome is the session and the FSM state the handler leaves, the     *)
(* replies it sent in order, whether it raised, and for a graded answer    *)
(* the verdict.                                                            *)
(***************************************************************************)
Outcome(sess, st, verdict, replies, raised) ==
    [sess |-> sess, st |-> st, verdict |-> verdict, replies |-> replies,
     raised |-> raised]

\* cmd_start with SESS[id] = default_session()
start_resets(sess, st) ==
    Outcome(default_session, Idle, "-", <<Reply("welcome", <<>>)>>, FALSE)

\* cmd_start: SESS[id] = SESS.get(id, default_session()); state.clear()
start(sess, st) ==
    Outcome(sess, Idle, "-", <<Reply("welcome", <<>>)>>, FALSE)

\* the level a /level message names: parts[1].lower() in LEVELS
named_level(parts) ==
    {l \in Range(LEVELS) : Len(parts) = 2 /\ lower(parts[2]) = LevelChars(l)}

\* cmd_level without `sess["index"] = 0`
level_keeps_index(sess, st, parts) ==
    IF named_level(parts) # {}
    THEN LET l == CHOOSE l \in named_level(parts) : TRUE
         IN  Outcome([sess EXCEPT !.level = l], st, "-",
                     <<Reply("level_set", LevelChars(l))>>, FALSE)
    ELSE Outcome(sess, st, "-", <<Reply("level_usage", <<>>)>>, FALSE)

level(sess, st, parts) ==
    IF named_level(parts) # {}
    THEN LET l == CHOOSE l \in named_level(parts) : TRUE
         IN  Outcome([sess EXCEPT !.level = l, !.index = 0], st, "-",
                     <<Reply("level_set", LevelChars(l))>>, FALSE)
    ELSE Outcome(sess, st, "-", <<Reply("level_usage", <<>>)>>, FALSE)

named_mode(parts) ==
    {m \in Range(MODES) : Len(parts) = 2 /\ lower(parts[2]) = ModeChars(m)}

mode(sess, st, parts) ==
    IF named_mode(parts) # {}
    THEN LET m == CHOOSE m \in named_mode(parts) : TRUE
         IN  Outcome([sess EXCEPT !.mode = m], st, "-",
                     <<Reply("mode_set", ModeChars(m))>>, FALSE)
    ELSE Outcome(sess, st, "-", <<Reply("mode_usage", <<>>)>>, FALSE)

\* cmd_train without `sess["current"] = item`
train_pick_keeps_current(sess, st) ==
    LET item  == pick_item(sess.level, sess.index)
        shown == IF sess.mode = "en2ar" THEN "en" ELSE "ar"
    IN  IF ~ Truthy(item)
        THEN Outcome(sess, st, "-", <<Reply("unavailable", <<>>)>>, FALSE)
        ELSE IF shown \notin item.keys
        THEN Outcome(sess, st, "-", <<>>, TRUE)
        ELSE Outcome(sess, "prompted", "-", <<Reply("prompt", item[shown])>>, FALSE)

\* cmd_train up to `await m.answer(...)`: st is "prompted" when the handler
\* goes on to state.set_state(Train.waiting_answer), and unchanged when it
\* returns or raises before
train_pick(sess, st) ==
    LET item  == pick_item(sess.level, sess.index)
        shown == IF sess.mode = "en2ar" THEN "en" ELSE "ar"
        s1    == [sess EXCEPT !.current = <<item>>]
    IN  IF ~ Truthy(item)
        THEN Outcome(sess, st, "-", <<Reply("unavailable", <<>>)>>, FALSE)
        ELSE IF shown \notin item.keys
        THEN Outcome(s1, st, "-", <<>>, TRUE)
        ELSE Outcome(s1, "prompted", "-", <<Reply("prompt", item[shown])>>, FALSE)

\* cmd_train to its return
train(sess, st) ==
    LET t == train_pick(sess, st)
    IN  IF t.st = "prompted" THEN [t EXCEPT !.st = waiting_answer] ELSE t

\* sess["index"] += 1
advance(sess) == [sess EXCEPT !.index = @ + 1]

\* cmd_next: /next and /skip
next(sess, st) == train(advance(sess), st)

\* s[:n]
Prefix(s, n) == SubSeq(s, 1, IF Len(s) < n THEN Len(s) ELSE n)

\* s.split(" ")[0]
FirstWord(s) ==
    IF \E i \in 1..Len(s) : s[i] = " "
    THEN SubSeq(s, 1, (CHOOSE i \in 1..Len(s) :
                          /\ s[i] = " "
                          /\ \A j \in 1..(i - 1) : s[j] # " ") - 1)
    ELSE s

\* cmd_hint without the `if not item` guard: item["ar"] on None raises
hint_unguarded(sess, st) ==
    LET item == sess.current[1]
        key  == IF sess.mode = "en2ar" THEN "ar" ELSE "en"
    IN  IF sess.current = <<>> \/ key \notin item.keys
        THEN Outcome(sess, st, "-", <<>>, TRUE)
        ELSE IF sess.mode = "en2ar"
        THEN Outcome(sess, st, "-",
                     <<Reply("hint", Prefix(normalize_ar(item.ar), 3))>>, FALSE)
        ELSE Outcome(sess, st, "-",
                     <<Reply("hint", Prefix(FirstWord(normalize_en(item.en)), 3))>>,
                     FALSE)

hint(sess, st) ==
    LET item == sess.current[1]
        key  == IF sess.mode = "en2ar" THEN "ar" ELSE "en"
    IN  IF sess.current = <<>>
        THEN Outcome(sess, st, "-", <<Reply("start_first", <<>>)>>, FALSE)
        ELSE IF key \notin item.keys
        THEN Outcome(sess, st, "-", <<>>, TRUE)
        ELSE IF sess.mode = "en2ar"
        THEN Outcome(sess, st, "-",
                     <<Reply("hint", Prefix(normalize_ar(item.ar), 3))>>, FALSE)
        ELSE Outcome(sess, st, "-",
                     <<Reply("hint", Prefix(FirstWord(normalize_en(item.en)), 3))>>,
                     FALSE)

\* tts_ok: whether tts_bytes (gTTS) returns; it raises otherwise
voice(sess, st, tts_ok) ==
    LET item == sess.current[1]
        key  == IF sess.mode = "en2ar" THEN "en" ELSE "ar"
    IN  IF sess.current = <<>>
        THEN Outcome(sess, st, "-", <<Reply("start_first", <<>>)>>, FALSE)
        ELSE IF key \notin item.keys \/ ~ tts_ok
        THEN Outcome(sess, st, "-", <<>>, TRUE)
        ELSE Outcome(sess, st, "-", <<Reply("audio", item[key])>>, FALSE)

\* handle_answer up to `if ok:`
grade(sess, text) ==
    LET item == sess.current[1]
        key  == IF sess.mode = "en2ar" THEN "ar" ELSE "en"
    IN  IF sess.current = <<>> THEN [kind |-> "no_item"]
        ELSE IF key \notin item.keys THEN [kind |-> "raised"]
        ELSE [kind    |-> "graded",
              correct |-> item[key],
              result  |-> Graded[<<text, item[key], key>>]]

\* the replies of the `if ok:` branch before `sess["index"] += 1`: the
\* audio (tts_bytes(item["en"]) and answer_audio, under suppress(Exception))
\* and the text with up to two example sentences
correct_replies(item, tts_ok) ==
    (IF "en" \in item.keys /\ tts_ok THEN <<Reply("audio", item.en)>> ELSE <<>>)
    \o <<Reply("correct", IF "examples" \in item.keys /\ item.examples > 0
                          THEN <<"examples">> ELSE <<>>)>>

\* the `if ok:` branch of handle_answer
answer_correct(sess, st, item, tts_ok) ==
    LET t == train(advance(sess), st)
    IN  Outcome(t.sess, t.st, "correct", correct_replies(item, tts_ok) \o t.replies,
                t.raised)

\* the `else:` branch moving on to the next item as the `if ok:` branch does
answer_incorrect_advances(sess, st, correct) ==
    LET t == train(advance(sess), st)
    IN  Outcome(t.sess, t.st, "incorrect",
                <<Reply("incorrect", correct)>> \o t.replies, t.raised)

\* the `else:` branch of handle_answer
answer_incorrect(sess, st, correct) ==
    Outcome(sess, st, "incorrect", <<Reply("incorrect", correct)>>, FALSE)

answer(sess, st, text, tts_ok) ==
    LET g == grade(sess, text)
    IN  CASE g.kind = "no_item" ->
                Outcome(sess, st, "-", <<Reply("start_first", <<>>)>>, FALSE)
          [] g.kind = "raised" ->
                Outcome(sess, st, "-", <<>>, TRUE)
          [] g.kind = "graded" /\ g.result.ok ->
                answer_correct(sess, st, sess.current[1], tts_ok)
          [] g.kind = "graded" /\ ~ g.result.ok ->
                answer_incorrect(sess, st, g.correct)

(***************************************************************************)
(* The handlers, each run from its message to its return                   *)
(***************************************************************************)
Init ==
    /\ \E file \in DataFiles :
          /\ DATA = load_data(file)
          /\ last = Done("-", "load", file, "-", <<>>, FALSE)
    /\ SESS = <<>>
    /\ fsm = [u \in Users |-> Idle]
    /\ history = <<>>
    /\ tasks = [u \in Users |-> <<>>]
    /\ sent = 0

\* a message arrives: the dispatcher starts its handler
Arrive ==
    /\ sent < MaxMsgs
    /\ sent' = sent + 1

\* the handler of user u's message returns with outcome o
Return(u, cmd, arg, o) ==
    /\ SESS' = SessPut(u, o.sess)
    /\ fsm' = [fsm EXCEPT ![u] = o.st]
    /\ last' = Done(u, cmd, arg, o.verdict, o.replies, o.raised)
    /\ UNCHANGED <<DATA, history>>

cmd_start(u) ==
    /\ Arrive
    /\ Return(u, "start", <<>>, start(SessGet(u), fsm[u]))
    /\ UNCHANGED tasks

cmd_help(u) ==
    /\ Arrive
    /\ last' = Done(u, "help", <<>>, "-", <<Reply("help", <<>>)>>, FALSE)
    /\ UNCHANGED <<DATA, SESS, fsm, history, tasks>>

cmd_level(u, parts) ==
    /\ Arrive
    /\ Return(u, "level", parts, level(SessGet(u), fsm[u], parts))
    /\ UNCHANGED tasks

cmd_mode(u, parts) ==
    /\ Arrive
    /\ Return(u, "mode", parts, mode(SessGet(u), fsm[u], parts))
    /\ UNCHANGED tasks

cmd_train(u) ==
    /\ Arrive
    /\ Return(u, "train", <<>>, train(SessGet(u), fsm[u]))
    /\ UNCHANGED tasks

\* /next and /skip are the same handler
cmd_next(u, cmd) ==
    /\ Arrive
    /\ Return(u, cmd, <<>>, next(SessGet(u), fsm[u]))
    /\ UNCHANGED tasks

cmd_hint(u) ==
    /\ Arrive
    /\ Return(u, "hint", <<>>, hint(SessGet(u), fsm[u]))
    /\ UNCHANGED tasks

cmd_voice(u, tts_ok) ==
    /\ Arrive
    /\ Return(u, "voice", <<>>, voice(SessGet(u), fsm[u], tts_ok))
    /\ UNCHANGED tasks

\* a text that is none of the commands, received in state waiting_answer
handle_answer(u, text, tts_ok) ==
    /\ Arrive
    /\ fsm[u] = waiting_answer
    /\ Return(u, "answer", text, answer(SessGet(u), fsm[u], text, tts_ok))
    /\ UNCHANGED tasks

\* the catch-all taken for a shortcut to /train
idle_trains(u, content) ==
    /\ Arrive
    /\ content = "text" => fsm[u] # waiting_answer
    /\ Return(u, "other", content, train(SessGet(u), fsm[u]))
    /\ UNCHANGED tasks

\* the catch-all: a text that is none of the commands outside waiting_answer,
\* or a message without text (a photo) in any state
idle(u, content) ==
    /\ Arrive
    /\ content = "text" => fsm[u] # waiting_answer
    /\ last' = Done(u, "other", content, "-", <<Reply("use_train", <<>>)>>, FALSE)
    /\ UNCHANGED <<DATA, SESS, fsm, history, tasks>>

Next ==
    \E u \in Users :
        \/ cmd_start(u)
        \/ cmd_help(u)
        \/ \E parts \in LevelParts : cmd_level(u, parts)
        \/ \E parts \in ModeParts : cmd_mode(u, parts)
        \/ cmd_train(u)
        \/ \E cmd \in {"next", "skip"} : cmd_next(u, cmd)
        \/ cmd_hint(u)
        \/ \E tts_ok \in BOOLEAN : cmd_voice(u, tts_ok)
        \/ \E text \in AnswerTexts, tts_ok \in BOOLEAN : handle_answer(u, text, tts_ok)
        \/ \E content \in {"text", "photo"} : idle(u, content)

Spec == Init /\ [][Next]_vars

(***************************************************************************)
(* The handlers as the event loop runs them.  main() starts polling with   *)
(* the dispatcher's defaults: every update is handled in a task of its     *)
(* own and no per-user lock is taken, so a handler suspended at            *)
(* `await m.answer(...)` or `await m.answer_audio(...)` lets the handler   *)
(* of a later message of the same user run.  A handler whose awaits are    *)
(* followed by nothing but its return is the action above; cmd_train,      *)
(* cmd_next and handle_answer are split where they suspend.  A suspended   *)
(* handler is a record of tasks[u]: where it resumes (pc) and its local    *)
(* variable item.                                                          *)
(***************************************************************************)
Remove(seq, k) == SubSeq(seq, 1, k - 1) \o SubSeq(seq, k + 1, Len(seq))

\* the handler suspends at the await after which it sets the FSM state
SuspendIfPrompted(u, cmd, arg, o) ==
    /\ Return(u, cmd, arg, [o EXCEPT !.st = fsm[u]])
    /\ tasks' = IF o.st = "prompted"
                THEN [tasks EXCEPT ![u] =
                         Append(@, [pc |-> "set_state", item |-> o.sess.current[1]])]
                ELSE tasks

\* cmd_train up to `await m.answer(...)`
begin_train(u) ==
    /\ Arrive
    /\ SuspendIfPrompted(u, "train", <<>>, train_pick(SessGet(u), fsm[u]))

\* cmd_next up to the `await m.answer(...)` of cmd_train
begin_next(u, cmd) ==
    /\ Arrive
    /\ SuspendIfPrompted(u, cmd, <<>>, train_pick(advance(SessGet(u)), fsm[u]))

\* handle_answer up to the `await m.answer(reply)` of a correct answer, or
\* to its return
begin_answer(u, text, tts_ok) ==
    LET sess == SessGet(u)
        g    == grade(sess, text)
        item == sess.current[1]
    IN  /\ Arrive
        /\ fsm[u] = waiting_answer
        /\ IF g.kind = "graded" /\ g.result.ok
           THEN /\ Return(u, "answer", text,
                          Outcome(sess, fsm[u], "correct",
                                  correct_replies(item, tts_ok), FALSE))
                /\ tasks' = [tasks EXCEPT ![u] =
                                Append(@, [pc |-> "advance", item |-> item])]
           ELSE /\ Return(u, "answer", text, answer(sess, fsm[u], text, tts_ok))
                /\ tasks' = tasks

\* handle_answer from `sess["index"] += 1` to the `await m.answer(...)` of
\* cmd_train
resume_answer(u, k) ==
    LET t == train_pick(advance(SessGet(u)), fsm[u])
    IN  /\ k \in DOMAIN tasks[u]
        /\ tasks[u][k].pc = "advance"
        /\ Return(u, "answer:resumed", <<>>, [t EXCEPT !.st = fsm[u]])
        /\ tasks' = [tasks EXCEPT ![u] =
                        IF t.st = "prompted"
                        THEN [@ EXCEPT ![k] = [pc |-> "set_state",
                                                item |-> t.sess.current[1]]]
                        ELSE Remove(@, k)]
        /\ UNCHANGED sent

\* cmd_train from `await state.set_state(Train.waiting_answer)`
resume_train(u, k) ==
    /\ k \in DOMAIN tasks[u]
    /\ tasks[u][k].pc = "set_state"
    /\ fsm' = [fsm EXCEPT ![u] = waiting_answer]
    /\ tasks' = [tasks EXCEPT ![u] = Remove(@, k)]
    /\ last' = Done(u, "train:resumed", <<>>, "-", <<>>, FALSE)
    /\ UNCHANGED <<DATA, SESS, history, sent>>

NextConc ==
    \E u \in Users :
        \/ cmd_start(u)
        \/ cmd_help(u)
        \/ \E parts \in LevelParts : cmd_level(u, parts)
        \/ \E parts \in ModeParts : cmd_mode(u, parts)
        \/ begin_train(u)
        \/ \E cmd \in {"next", "skip"} : begin_next(u, cmd)
        \/ cmd_hint(u)
        \/ \E tts_ok \in BOOLEAN : cmd_voice(u, tts_ok)
        \/ \E text \in AnswerTexts, tts_ok \in BOOLEAN : begin_answer(u, text, tts_ok)
        \/ \E content \in {"text", "photo"} : idle(u, content)
        \/ \E k \in 1..MaxMsgs : resume_answer(u, k)
        \/ \E k \in 1..MaxMsgs : resume_train(u, k)

SpecConc == Init /\ [][NextConc]_vars

(***************************************************************************)
(* Properties.  Handled(u, cmd): this step is the handler of a message     *)
(* cmd of user u, run from its message to its return.                      *)
(***************************************************************************)
Handled(u, cmd) == sent' = sent + 1 /\ last'.user = u /\ last'.cmd = cmd

\* the level each /level message of LevelParts is meant to name
MeantLevel ==
    (<<"/level", LevelChars("beginner")>> :> "beginner")
    @@ (<<"/level", <<"I","n","t","e","r","m","e","d","i","a","t","e">>>> :> "intermediate")
    @@ (<<"/level", <<"A","D","V","A","N","C","E","D">>>> :> "advanced")

\* C1: a free-text answer graded correct, in AwaitingAnswer with a current
\* item, advances the cursor by exactly 1 and leaves the session in
\* AwaitingAnswer with current = selectItem(level, new cursor).
C1_CorrectAnswerAdvances ==
    [][\A u \in Users :
          (/\ Handled(u, "answer")
           /\ last'.verdict = "correct"
           /\ fsm[u] = waiting_answer
           /\ SessGet(u).current # <<>>)
          => /\ SessGet(u)'.index = SessGet(u).index + 1
             /\ fsm'[u] = waiting_answer
             /\ SessGet(u)'.current
                   = <<pick_item(SessGet(u)'.level, SessGet(u)'.index)>>]_vars

\* C2: a free-text answer graded incorrect leaves cursor, current, level and
\* direction unchanged and the conversation state AwaitingAnswer.
C2_IncorrectAnswerKeepsSession ==
    [][\A u \in Users :
          (Handled(u, "answer") /\ last'.verdict = "incorrect")
          => /\ fsm[u] = waiting_answer
             /\ fsm'[u] = waiting_answer
             /\ SessGet(u)' = SessGet(u)]_vars

\* an incorrect answer was graded and its item is still the current one
C2_Witness ==
    \E u \in Users :
        /\ last.user = u /\ last.cmd = "answer" /\ last.verdict = "incorrect"
        /\ fsm[u] = waiting_answer
        /\ SessGet(u).current # <<>>
        /\ last.replies = <<Reply("incorrect", SessGet(u).current[1].ar)>>

\* C3: a level command naming a level sets level to it and cursor to 0 and
\* changes neither the conversation state nor current; a level command with
\* a missing or unknown name changes nothing.
C3_LevelCommand ==
    [][\A u \in Users :
          Handled(u, "level")
          => /\ fsm' = fsm
             /\ IF last'.arg \in DOMAIN MeantLevel
                THEN SessGet(u)' = [SessGet(u) EXCEPT
                                       !.level = MeantLevel[last'.arg], !.index = 0]
                ELSE SessGet(u)' = SessGet(u)]_vars

\* /level ADVANCED while the second beginner item is pending: the cursor went
\* from 1 to 0 and the pending item stayed
C3_Witness ==
    \E u \in Users :
        /\ last.user = u /\ last.cmd = "level"
        /\ fsm[u] = waiting_answer
        /\ Len(DATA.beginner) >= 2
        /\ SessGet(u) = [level |-> "advanced", mode |-> "en2ar", index |-> 0,
                         current |-> <<DATA.beginner[2]>>]

\* C4 as stated: after start the session equals the defaults and the
\* conversation state is Idle.
C4_StartResetsSession ==
    \A u \in Users :
        (last.user = u /\ last.cmd = "start")
        => SessGet(u) = default_session /\ fsm[u] = Idle

\* C4 as the code has it: start keeps the level, direction, cursor and
\* current of an existing session (a user without one gets the defaults) and
\* leaves the conversation state Idle.
C4_StartKeepsSession ==
    [][\A u \in Users :
          Handled(u, "start")
          => /\ SessGet(u)' = SessGet(u)
             /\ u \in DOMAIN SESS'
             /\ fsm'[u] = Idle]_vars

\* start was issued while a question was pending
C4_Witness ==
    \E u \in Users :
        /\ last.user = u /\ last.cmd = "start"
        /\ fsm[u] = Idle
        /\ SessGet(u).current # <<>>

\* C5: in AwaitingAnswer, next and skip increase the cursor by exactly 1, set
\* current to selectItem(level, new cursor), leave level and direction
\* unchanged and leave the conversation state AwaitingAnswer.
C5_NextAdvances ==
    [][\A u \in Users :
          ((Handled(u, "next") \/ Handled(u, "skip")) /\ fsm[u] = waiting_answer)
          => /\ SessGet(u)'.index = SessGet(u).index + 1
             /\ SessGet(u)'.level = SessGet(u).level
             /\ SessGet(u)'.mode = SessGet(u).mode
             /\ SessGet(u)'.current
                   = <<pick_item(SessGet(u)'.level, SessGet(u)'.index)>>
             /\ fsm'[u] = waiting_answer]_vars

\* C6: hint never changes level, direction, cursor, current or the
\* conversation state; without a current item it replies with the "start
\* training first" guidance and raises nothing.
C6_HintChangesNothing ==
    [][\A u \in Users :
          Handled(u, "hint")
          => /\ SessGet(u)' = SessGet(u)
             /\ fsm' = fsm
             /\ SessGet(u).current = <<>>
                => /\ last'.replies = <<Reply("start_first", <<>>)>>
                   /\ ~ last'.raised]_vars

\* hint was issued before any item was selected
C6_Witness ==
    \E u \in Users :
        /\ last.user = u /\ last.cmd = "hint"
        /\ SessGet(u).current = <<>>
        /\ last.replies = <<Reply("start_first", <<>>)>>

\* C7: for every level with k >= 1 items and every cursor i,
\* selectItem(level, i) = selectItem(level, i + k) = the item at position
\* i mod k, and the item a prompt shows is the one at the cursor mod k.
C7_SelectionIsCyclic ==
    /\ \A l \in DOMAIN DATA : \A i \in 0..(3 * MaxMsgs) :
          LET k == Len(DATA[l])
          IN  k >= 1 => /\ pick_item(l, i) = pick_item(l, i + k)
                        /\ pick_item(l, i) = DATA[l][(i % k) + 1]
    /\ \A u \in Users :
          (/\ last.user = u
           /\ last.replies # <<>>
           /\ last.replies[Len(last.replies)].kind = "prompt")
          => LET s == SessGet(u)
             IN  s.current = <<DATA[s.level][(s.index % Len(DATA[s.level])) + 1]>>

\* the cursor ran past the last of several items and the first is shown again
C7_Witness ==
    \E u \in Users :
        LET s == SessGet(u)
        IN  /\ last.user = u /\ last.cmd \in {"next", "skip"}
            /\ Len(DATA[s.level]) >= 2
            /\ s.index = Len(DATA[s.level])
            /\ s.current = <<DATA[s.level][1]>>
            /\ last.replies = <<Reply("prompt", DATA[s.level][1].en)>>

\* the file contract: all three levels, each with at least one item, each
\* item with both text fields
ValidTables(d) ==
    \A l \in Range(LEVELS) :
        /\ l \in DOMAIN d
        /\ Len(d[l]) >= 1
        /\ \A i \in 1..Len(d[l]) : {"en", "ar"} \subseteq d[l][i].keys

\* C8: whatever the dataset file, the tables in use have all three levels,
\* each with at least one item with both text fields; a file that deviates
\* from the contract gives the fallback dataset; train yields an item.
C8_LoadedTablesValid ==
    /\ ValidTables(DATA)
    /\ last.cmd = "load"
       => \/ DATA = FALLBACK_DATA
          \/ last.arg.kind = "object" /\ ValidTables(last.arg.value)
    /\ last.cmd = "train"
       => ~ last.raised /\ last.replies # <<>> /\ last.replies[1].kind = "prompt"

\* C9: every graded free-text answer appends exactly one Attempt to the
\* History Log, and no step removes or alters a record already in it.
C9_GradedAnswerLogged ==
    [][/\ Len(history') >= Len(history)
       /\ SubSeq(history', 1, Len(history)) = history
       /\ \A u \in Users :
             (Handled(u, "answer") /\ last'.verdict \in {"correct", "incorrect"})
             => Len(history') = Len(history) + 1]_vars

\* C10: no handler of a user's message starts while an earlier handler of
\* the same user is suspended at an await, so no two answers of a user are
\* graded against the same current item.
C10_OneHandlerPerUser ==
    [][\A u \in Users :
          /\ (sent' = sent + 1 /\ last'.user = u) => tasks[u] = <<>>
          /\ \A i, j \in DOMAIN tasks'[u] :
                (i # j /\ tasks'[u][i].pc = "advance" /\ tasks'[u][j].pc = "advance")
                => tasks'[u][i].item # tasks'[u][j].item]_vars

\* the replies of a handler other than the audio messages
TextReplies(replies) == SelectSeq(replies, LAMBDA r : r.kind # "audio")

\* C11: when synthesis (tts_bytes) fails in /voice or after a correct
\* answer, the handler does not raise, the user gets the text reply, and the
\* session and conversation state end as they do when synthesis succeeds.
C11_SynthesisFailureContained ==
    [][\A u \in Users :
          /\ Handled(u, "voice")
             => LET o == voice(SessGet(u), fsm[u], TRUE)
                IN  /\ last'.raised = o.raised
                    /\ SessGet(u)' = o.sess
                    /\ fsm'[u] = o.st
                    /\ o.replies # <<>> => last'.replies # <<>>
          /\ Handled(u, "answer")
             => LET o == answer(SessGet(u), fsm[u], last'.arg, TRUE)
                IN  /\ last'.raised = o.raised
                    /\ SessGet(u)' = o.sess
                    /\ fsm'[u] = o.st
                    /\ TextReplies(last'.replies) = TextReplies(o.replies)]_vars

(***************************************************************************)
(* The text functions on their own: normalize_en, normalize_ar,            *)
(* fuzzy_equal and the hint of cmd_hint, each called once on texts a and b *)
(* drawn from TextInputs.  last holds the call: its inputs a and b, the    *)
(* language or mode opt, and the value returned out.                       *)
(***************************************************************************)
MaxTextLen == 2

\* every text of at most n characters over a letter, a capital and a space
RECURSIVE Words(_)
Words(n) ==
    IF n = 0 THEN {<<>>}
    ELSE Words(n - 1) \cup
         {Append(w, c) : w \in Words(n - 1), c \in {"a", "B", " "}}

TextInputs ==
    Words(MaxTextLen) \cup
    { <<" ","A","b","!"," ">>, <<"a"," ","\t"," ","b">>, <<"a","-","b","?">>,
      <<"K","P","I">>, <<"d","a","t","a">>, <<"t","i","m","e"," ","s","e","r","i","e","s">>,
      <<"a","b","a">>, <<"b","c","a">>, <<"t","i","d","e">>, <<"d","i","e","t">>,
      <<"a","b","b","a","a","b","b">>, <<"a","a","b","b","a","b","b">>,
      <<"beh","yeh","alef","noon","alef","teh">>, <<"beh","yeh","alef","noon","alef">>,
      <<"beh","yeh","ain">>, <<"alef_hamza_above","beh">>, <<"alef_madda","beh","alef_maksura">>,
      <<"beh","fatha","teh_marbuta","arabic_comma">>, <<" ","beh","!","a","teh"," ">>,
      <<"teh","qaf","reh","yeh","reh">>, <<"reh","qaf","teh","yeh","reh">> }

Call(cmd, a, b, opt, out) ==
    [cmd |-> cmd, user |-> "-", a |-> a, b |-> b, opt |-> opt, out |-> out]

InitText ==
    /\ \E a \in TextInputs, b \in TextInputs : last = Call("input", a, b, "-", <<>>)
    /\ DATA = FALLBACK_DATA
    /\ SESS = <<>>
    /\ fsm = [u \in Users |-> Idle]
    /\ history = <<>>
    /\ tasks = [u \in Users |-> <<>>]
    /\ sent = 0

call_normalize_en ==
    /\ last.cmd = "input"
    /\ last' = Call("normalize_en", last.a, last.b, "en", normalize_en(last.a))
    /\ UNCHANGED <<DATA, SESS, fsm, history, tasks, sent>>

call_normalize_ar ==
    /\ last.cmd = "input"
    /\ last' = Call("normalize_ar", last.a, last.b, "ar", normalize_ar(last.a))
    /\ UNCHANGED <<DATA, SESS, fsm, history, tasks, sent>>

call_fuzzy_equal(lang) ==
    /\ last.cmd = "input"
    /\ last' = Call("fuzzy_equal", last.a, last.b, lang,
                    fuzzy_equal(last.a, last.b, lang))
    /\ UNCHANGED <<DATA, SESS, fsm, history, tasks, sent>>

\* cmd_hint for a session whose current item has en = a and ar = b
call_hint(m) ==
    /\ last.cmd = "input"
    /\ last' = Call("hint", last.a, last.b, m,
                    hint([default_session EXCEPT
                             !.mode = m, !.current = <<Item(last.a, last.b, 0)>>],
                         waiting_answer))
    /\ UNCHANGED <<DATA, SESS, fsm, history, tasks, sent>>

NextText ==
    \/ call_normalize_en
    \/ call_normalize_ar
    \/ \E lang \in {"ar", "en"} : call_fuzzy_equal(lang)
    \/ \E m \in Range(MODES) : call_hint(m)

SpecText == InitText /\ [][NextText]_vars

\* C12: the grader's score is symmetric: fuzzy_equal(a, b, lang) and
\* fuzzy_equal(b, a, lang) give the same score and the same verdict.
C12_GraderSymmetric ==
    last.cmd = "fuzzy_equal"
    => LET back == fuzzy_equal(last.b, last.a, last.opt)
       IN  /\ last.out.num * back.den = back.num * last.out.den
           /\ last.out.ok = back.ok

\* C13: both normalizers are idempotent: normalizing a normalized text,
\* the empty text included, gives that text again.
C13_NormalizersIdempotent ==
    /\ last.cmd = "normalize_en" => normalize_en(last.out) = last.out
    /\ last.cmd = "normalize_ar" => normalize_ar(last.out) = last.out

\* a text that normalization changes: case, punctuation and outer spaces
C13_Witness ==
    /\ last.cmd = "normalize_en"
    /\ last.a = <<" ","A","b","!"," ">>
    /\ last.out = <<"a","b">>

\* the answer a hint is about: the Arabic text in en2ar, the English in ar2en
HintedAnswer ==
    IF last.opt = "en2ar" THEN normalize_ar(last.b) ELSE normalize_en(last.a)

\* C16: for a current item whose normalized expected answer is not empty,
\* the text a hint reveals is a proper prefix of that answer: strictly
\* shorter than it, whatever its length.
C16_HintIsProperPrefix ==
    (last.cmd = "hint" /\ ~ last.out.raised /\ HintedAnswer # <<>>)
    => LET text == last.out.replies[1].text
       IN  /\ Len(text) < Len(HintedAnswer)
           /\ text = SubSeq(HintedAnswer, 1, Len(text))

\* this step handles a message of user u and sends a prompt
Prompted(u) ==
    /\ sent' = sent + 1
    /\ last'.user = u
    /\ \E i \in DOMAIN last'.replies : last'.replies[i].kind = "prompt"

\* C14: after a level command switched the session to a new level, the first
\* item of that level presented (by train, next, skip or a correct answer)
\* is the level's item at index 0.  A session off the default level that has
\* never had an item has been switched and shown nothing since.
C14_NewLevelStartsAtFirstItem ==
    [][\A u \in Users :
          (/\ SessGet(u).level # default_session.level
           /\ SessGet(u).current = <<>>
           /\ Prompted(u))
          => LET s == SessGet(u)'
             IN  /\ s.current = <<DATA[s.level][1]>>
                 /\ s.index = 0]_vars

\* this step handles, for user u in state Idle, a message of one of cmds
IdleInput(u, cmds) ==
    /\ fsm[u] = Idle
    /\ sent' = sent + 1
    /\ last'.user = u
    /\ last'.cmd \in cmds

\* C15 as stated: while a user is Idle, next, skip, hint, speak and free text
\* only produce a guidance notice; the conversation state stays Idle and
\* level, direction, cursor and current are unchanged.
C15_IdleOnlyGuidance ==
    [][\A u \in Users :
          IdleInput(u, {"next", "skip", "hint", "voice", "other"})
          => /\ fsm'[u] = Idle
             /\ SessGet(u)' = SessGet(u)
             /\ \A i \in DOMAIN last'.replies :
                   last'.replies[i].kind \in {"use_train", "start_first"}]_vars

\* C15 as the code has it: while a user is Idle, every input other than
\* start, train, next, skip, level and direction (hint, speak, help, free
\* text, a message without text) leaves the conversation state Idle and
\* level, direction, cursor and current unchanged, and a message that is no
\* command is answered with the "use train" notice.
C15_IdleInputsKeepSession ==
    [][\A u \in Users :
          IdleInput(u, {"hint", "voice", "help", "other"})
          => /\ fsm'[u] = Idle
             /\ SessGet(u)' = SessGet(u)
             /\ last'.cmd = "other"
                => last'.replies = <<Reply("use_train", <<>>)>>]_vars

\* free text from a user who is Idle again after a question (train, start)
C15_Witness ==
    \E u \in Users :
        /\ last.user = u /\ last.cmd = "other" /\ last.arg = "text"
        /\ fsm[u] = Idle
        /\ SessGet(u).current # <<>>
        /\ last.replies = <<Reply("use_train", <<>>)>>

\* C17: when the session's level has no items, each of train, next and skip
\* replies with the "unavailable" message and leaves level, direction,
\* cursor, current and the conversation state unchanged.
C17_EmptyLevelChangesNothing ==
    [][\A u \in Users :
          (/\ Handled(u, "train") \/ Handled(u, "next") \/ Handled(u, "skip")
           /\ DATA[SessGet(u).level] = <<>>)
          => /\ last'.replies = <<Reply("unavailable", <<>>)>>
             /\ SessGet(u)' = SessGet(u)
             /\ fsm' = fsm]_vars

\* C18: a user whose conversation state is waiting_answer has a current
\* item, so a graded answer never takes the "no active item" branch.
C18_AwaitingHasCurrent ==
    \A u \in Users :
        /\ fsm[u] = waiting_answer => SessGet(u).current # <<>>
        /\ (last.user = u /\ last.cmd = "answer")
           => last.replies # <<Reply("start_first", <<>>)>>

\* an answer was graded in state waiting_answer against the current item
C18_Witness ==
    \E u \in Users :
        /\ last.user = u /\ last.cmd = "answer"
        /\ last.verdict \in {"correct", "incorrect"}
        /\ fsm[u] = waiting_answer
        /\ SessGet(u).current # <<>>

\* C19: a graded answer is compared against the field of the current item in
\* the other language than the one its prompt displayed, also when a /mode
\* command came in between.  Checked where the displayed field is known: the
\* user's first message brought the prompt, in the default mode en2ar (the
\* English text displayed), the second was /mode, the third is the answer.
C19_ExpectedIsNotDisplayedField ==
    [][\A u \in Users :
          (/\ sent = 2
           /\ last.user = u /\ last.cmd = "mode"
           /\ fsm[u] = waiting_answer
           /\ "ar" \in SessGet(u).current[1].keys
           /\ Handled(u, "answer")
           /\ last'.verdict \in {"correct", "incorrect"})
          => LET item == SessGet(u).current[1]
             IN  /\ last'.verdict =
                       IF Graded[<<last'.arg, item.ar, "ar">>].ok
                       THEN "correct" ELSE "incorrect"
                 /\ normalize_en(last'.arg) = normalize_en(item.en)
                    => last'.verdict = "incorrect"]_vars

\* C20: a message handled for one user leaves the session and the
\* conversation state of every other user unchanged, and a session created
\* with the defaults for one user is not the session of another.
C20_SessionsIsolated ==
    [][\A u \in Users :
          last'.user = u
          => \A v \in Users \ {u} :
                /\ SessGet(v)' = SessGet(v)
                /\ fsm'[v] = fsm[v]
                /\ v \in DOMAIN SESS' <=> v \in DOMAIN SESS]_vars

\* two users hold sessions, and the one who acted last moved on alone
C20_Witness ==
    \E u \in Users : \E v \in Users \ {u} :
        /\ last.user = u /\ last.cmd \in {"next", "skip", "answer"}
        /\ {u, v} \subseteq DOMAIN SESS
        /\ SESS[u].index = 1 /\ fsm[u] = waiting_answer
        /\ SESS[v] = default_session /\ fsm[v] = Idle

=============================================================================
